---- MODULE Spec2Model ----
(***************************************************************************)
(* A model of the flaskr blog application: the user and post tables, the   *)
(* per-browser session cookie, one application context per request         *)
(* (flask.g with g.user and g.db), and SQLite's write lock.  The requests  *)
(* of different browsers run concurrently; a request runs in steps that    *)
(* other requests' steps may come between:                                 *)
(*   load_logged_in_user - the context is pushed, g.user is resolved;      *)
(*   a view  - register, login, logout, index, create, or the get_post     *)
(*             half of update / delete (fetch);                            *)
(*   update, delete - the half of the view that follows get_post;          *)
(*   execute, busy_timeout - the end of a write statement that had to      *)
(*             wait for the write lock;                                    *)
(*   teardown - teardown_appcontext runs close_db.                         *)
(* A SELECT, and a write statement together with its commit, is one step.  *)
(* A request's inputs (endpoint, method, form, id) are drawn at the step   *)
(* whose code first reads them.  Only requests the route table admits are  *)
(* modelled: index and logout are GET, delete is POST, the others are GET  *)
(* or POST.  The form of a POST to register, login and create carries both *)
(* of its fields; the form of a POST to update may lack either.            *)
(*                                                                         *)
(* Three specifications:                                                   *)
(*   Spec         - the requests of two browsers and 'flask init-db', whose *)
(*                  script runs statement by statement between them;       *)
(*   SpecRequests - the requests of two browsers only;                     *)
(*   SpecIndex    - the listing applied to every post table up to          *)
(*                  MaxListed rows.                                        *)
(***************************************************************************)
EXTENDS Integers, Sequences, FiniteSets

VARIABLES users, posts, nextPostId, now, session, req, resp, openConns, lock,
          tables, script

vars == <<users, posts, nextPostId, now, session, req, resp, openConns, lock,
          tables, script>>

\* ------------------------------------------------------------------ bounds
\* Rows the post table's AUTOINCREMENT counter may hand out in a run.
MaxPosts == 1
\* Largest value of the server clock (CURRENT_TIMESTAMP) in Spec.
MaxClock == 1
\* Longest post table, and largest created value, that SpecIndex starts from.
MaxListed == 4
MaxStamp == 3

\* ------------------------------------------------------------------ inputs
Clients == {"c1", "c2"}
Usernames == {"", "a", "b"}
\* Passwords a browser registers with, and passwords it tries to log in with.
Passwords == {"", "p"}
Guesses == {"", "p", "q"}
Titles == {"", "t"}
Bodies == {"", "x"}
Methods == {"GET", "POST"}
PostIds == 1..(MaxPosts + 1)

\* Python's None / SQL NULL / a key absent from session or g.  Row ids start at 1.
None == 0

\* A field the posted form does not have: request.form[key] raises
\* BadRequestKeyError for it, which Flask answers 400.  No value of a field
\* equals it.
Absent == "<absent>"

\* The tables of the schema, and the statements of schema.sql in the order
\* executescript runs them, each committed on its own.
AllTables == {"user", "post"}
Schema ==
    <<<<"DROP", "user">>, <<"DROP", "post">>,
      <<"CREATE", "user">>, <<"CREATE", "post">>>>

\* ------------------------------------------------------------- werkzeug
\* generate_password_hash: a one-way digest; the stored value is never the
\* plaintext.  check_password_hash recomputes the digest and compares.
generate_password_hash(password) == <<"pbkdf2", password>>

check_password_hash(pwhash, password) == pwhash = generate_password_hash(password)

\* ------------------------------------------------------------ the tables
\* users: rows [id, username, password] in rowid order.
\* posts: rows [id, title, body, created, author_id] in rowid order.

\* 'SELECT * FROM user WHERE username = ?' .fetchone(): the position of the
\* row, None when there is none.
SelectUserByName(tbl, username) ==
    IF \E i \in 1..Len(tbl) : tbl[i].username = username
    THEN CHOOSE i \in 1..Len(tbl) :
            /\ tbl[i].username = username
            /\ \A j \in 1..(i - 1) : tbl[j].username # username
    ELSE None

\* 'SELECT * FROM user WHERE id = ?' .fetchone(): the id of the row found,
\* None when there is none.
SelectUserById(tbl, user_id) ==
    IF \E i \in 1..Len(tbl) : tbl[i].id = user_id THEN user_id ELSE None

\* The schema's UNIQUE constraint on user.username: TRUE when a row with
\* the username would break it.
UniqueViolation(tbl, username) == SelectUserByName(tbl, username) # None

\* 'INSERT INTO user (username, password) VALUES (?, ?)': ok is FALSE for
\* an IntegrityError, which leaves the table as it was.
InsertUser(tbl, username, pwhash) ==
    IF UniqueViolation(tbl, username)
    THEN [ok |-> FALSE, tbl |-> tbl]
    ELSE [ok |-> TRUE,
          tbl |-> Append(tbl, [id |-> Len(tbl) + 1, username |-> username,
                               password |-> pwhash])]

\* '... FROM post p JOIN user u ON p.author_id = u.id WHERE p.id = ?'
\* .fetchone(): the position of the post, None when no row is returned.
SelectPostById(ptbl, utbl, id) ==
    IF \E i \in 1..Len(ptbl) :
          ptbl[i].id = id /\ SelectUserById(utbl, ptbl[i].author_id) # None
    THEN CHOOSE i \in 1..Len(ptbl) : ptbl[i].id = id
    ELSE None

\* An insertion that binds the wrong value as author_id: the new post's id.
InsertPostWrongAuthor(ptbl, id, title, body, author_id, created) ==
    Append(ptbl, [id |-> id, title |-> title, body |-> body,
                  created |-> created, author_id |-> id])

\* 'INSERT INTO post (title, body, author_id) VALUES (?, ?, ?)': id from the
\* table's counter, created from the column default CURRENT_TIMESTAMP.
InsertPost(ptbl, id, title, body, author_id, created) ==
    Append(ptbl, [id |-> id, title |-> title, body |-> body,
                  created |-> created, author_id |-> author_id])

\* 'UPDATE post SET title = ?, body = ? WHERE id = ?'
UpdatePost(ptbl, id, title, body) ==
    [i \in 1..Len(ptbl) |->
        IF ptbl[i].id = id
        THEN [ptbl[i] EXCEPT !.title = title, !.body = body]
        ELSE ptbl[i]]

\* 'DELETE FROM post WHERE id = ?'
DeletePost(ptbl, id) == SelectSeq(ptbl, LAMBDA p : p.id # id)

\* The joined row the listing returns for a post.
JoinedRow(p, utbl) ==
    [id |-> p.id, title |-> p.title, body |-> p.body, created |-> p.created,
     author_id |-> p.author_id,
     username |-> utbl[CHOOSE i \in 1..Len(utbl) : utbl[i].id = p.author_id].username]

\* A sorter that puts a row before the rows of equal created.
RECURSIVE SortedInsertTiesFirst(_, _)
SortedInsertTiesFirst(sorted, row) ==
    IF sorted = <<>> THEN <<row>>
    ELSE IF Head(sorted).created > row.created
         THEN <<Head(sorted)>> \o SortedInsertTiesFirst(Tail(sorted), row)
         ELSE <<row>> \o sorted

\* One step of the ORDER BY created DESC sorter: row goes in after every row
\* already placed whose created is not smaller (rows arrive in rowid order
\* and equal keys keep their arrival order).
RECURSIVE SortedInsert(_, _)
SortedInsert(sorted, row) ==
    IF sorted = <<>> THEN <<row>>
    ELSE IF Head(sorted).created >= row.created
         THEN <<Head(sorted)>> \o SortedInsert(Tail(sorted), row)
         ELSE <<row>> \o sorted

RECURSIVE OrderByCreatedDesc(_)
OrderByCreatedDesc(rows) ==
    IF rows = <<>> THEN <<>>
    ELSE SortedInsert(OrderByCreatedDesc(SubSeq(rows, 1, Len(rows) - 1)),
                      rows[Len(rows)])

\* 'SELECT ... FROM post p JOIN user u ON p.author_id = u.id ORDER BY created
\* DESC' .fetchall(): scan post in rowid order, keep the posts whose author
\* row exists, sort.
IndexQuery(ptbl, utbl) ==
    LET joined == SelectSeq(ptbl, LAMBDA p : SelectUserById(utbl, p.author_id) # None)
    IN  OrderByCreatedDesc([i \in 1..Len(joined) |-> JoinedRow(joined[i], utbl)])
\* ----------------------------------------------------- application context
\* flask.g of one request and the place its code has got to.
\*   pc           : "idle" no request; "view" before the view function;
\*                  "write" update / delete after get_post; "wait" inside
\*                  db.execute, waiting for SQLite's write lock; "done"
\*                  answered, context not yet popped
\*   g_user, g_db : g.user (a user id) and g.db (a connection), None if unset
\*   nconn        : sqlite3.connect() calls made in the context
\*   schema       : the tables of the schema g.db holds in memory: those
\*                  the database had when g.db last completed a statement,
\*                  {} before.  SQLite compiles a statement against this
\*                  copy, reading the file's schema when the copy lacks a
\*                  table the statement names, and otherwise finds out that
\*                  the file's schema has changed only when the statement
\*                  starts to run
\*   op, id, form : while the view is between two steps ("write", "wait"):
\*                  the endpoint, the <int:id> of the URL and the two
\*                  fields of request.form its statement binds
Idle ==
    [pc |-> "idle", op |-> "none", id |-> None, g_user |-> None, g_db |-> None,
     nconn |-> 0, schema |-> {}, form |-> <<"", "">>]

\* The response the latest step sent, NoResponse when it sent none.
\*   client, op, id, method, form : the request it answers
\*   status, flash, rows : the answer; flash is the flashed message in
\*                  pieces, <<>> when nothing was flashed; rows is what the
\*                  listing template is given
NoResponse ==
    [client |-> "none", op |-> "none", id |-> None, method |-> "none",
     form |-> <<"", "">>, status |-> "none", flash |-> <<>>, rows |-> <<>>]

\* A get_db() that connects on every call.
GetDbAlwaysConnect(g) ==
    [g EXCEPT !.g_db = g.nconn + 1, !.nconn = g.nconn + 1]

\* get_db(): connect once per context and keep the connection in g.db.  A
\* connection is named by its context's client and the count of connects.
get_db(g) ==
    IF g.g_db = None
    THEN [g EXCEPT !.g_db = g.nconn + 1, !.nconn = g.nconn + 1]
    ELSE g

\* The connections open after the context of client c went from g to h.
Connected(c, g, h) ==
    openConns \cup {<<c, k>> : k \in (g.nconn + 1)..h.nconn}

\* close_db(): pop g.db and close it when there was one.
close_db(c, g) ==
    IF g.g_db # None THEN openConns \ {<<c, g.g_db>>} ELSE openConns

\* A statement that names a table the database does not have raises
\* sqlite3.OperationalError 'no such table', which no view catches (a 500).
\* ts are the tables the statement names.
NoSuchTable(ts) == ~(ts \subseteq tables)

\* The value of lock when no connection is inside a write transaction.
Free == <<>>

\* Another connection than g.db of client c is inside a write transaction:
\* a write statement on g.db has to wait for SQLite's lock.
Busy(c, g) == lock # Free /\ lock # <<c, g.g_db>>

\* A guard that lets everyone through.
LoginRequiredOff(g_user) == FALSE

\* login_required: TRUE when wrapped_view redirects to auth.login instead of
\* calling the view.
login_required(g_user) == g_user = None

\* The view of client c, its context now g, answers.
Respond(c, g, op, method, form, status, flash, rows) ==
    /\ req' = [req EXCEPT ![c] =
            [g EXCEPT !.pc = "done", !.op = "none", !.id = None,
                      !.schema = {}, !.form = <<"", "">>]]
    /\ resp' = [client |-> c, op |-> op, id |-> g.id, method |-> method,
                form |-> form, status |-> status, flash |-> flash,
                rows |-> rows]
    /\ openConns' = Connected(c, req[c], g)
    /\ UNCHANGED <<tables, script>>

\* The code of client c gets to another place, its context now g, without
\* an answer yet.
Goes(c, g) ==
    /\ req' = [req EXCEPT ![c] = g]
    /\ resp' = NoResponse
    /\ openConns' = Connected(c, req[c], g)
    /\ UNCHANGED <<tables, script>>

\* db.execute of the write statement of a POST to op while another
\* connection holds the write lock: the statement waits in SQLite's busy
\* handler.  Either the wait is still on when the step ends, or it ran out:
\* sqlite3.OperationalError 'database is locked', which no view catches (a
\* 500).  Nothing is written.
Blocked(c, g, op, form) ==
    /\ \/ Goes(c, [g EXCEPT !.pc = "wait", !.op = op, !.form = form])
       \/ Respond(c, g, op, "POST", form, "500", <<>>, <<>>)
    /\ UNCHANGED <<users, posts, nextPostId, now, lock>>

\* db.execute of the write statement of a POST to op whose table has been
\* dropped.  When the schema g.db has read does not have the table either,
\* the statement does not compile: 'no such table' at once, no lock taken.
\* When it has the table, the statement compiles and starts to run: the
\* implicit BEGIN, then the write lock, for which it waits like any write,
\* and only then the look at the file's schema, which raises 'no such
\* table'; the connection stays inside the transaction and keeps the write
\* lock until close_db closes it.
Dropped(c, g, op, form, table) ==
    IF table \notin g.schema
    THEN /\ Respond(c, g, op, "POST", form, "500", <<>>, <<>>)
         /\ UNCHANGED <<users, posts, nextPostId, now, lock>>
    ELSE IF Busy(c, g)
    THEN Blocked(c, g, op, form)
    ELSE /\ Respond(c, g, op, "POST", form, "500", <<>>, <<>>)
         /\ lock' = <<c, g.g_db>>
         /\ UNCHANGED <<users, posts, nextPostId, now>>

\* ------------------------------------------------------------------- Init
\* The application after create_app() and 'flask init-db': empty tables, no
\* cookie, no request.
Init ==
    /\ users = <<>>
    /\ posts = <<>>
    /\ nextPostId = 1
    /\ now = 1
    /\ session = [c \in Clients |-> None]
    /\ req = [c \in Clients |-> Idle]
    /\ resp = NoResponse
    /\ openConns = {}
    /\ lock = Free
    /\ tables = AllTables
    /\ script = 0

\* ---------------------------------------------------------------- actions
\* The connection of the application context 'flask init-db' runs in.
Cli == <<"flask init-db", 1>>

\* 'flask init-db' run again, in a process of its own, one run at a time.
\* The command starts: its application context is pushed and init_db()
\* calls get_db(), which connects.  The context has the connection Cli
\* from here until its teardown; no statement of the script has run yet.
init_db_command ==
    /\ Cli \notin openConns
    /\ openConns' = openConns \cup {Cli}
    /\ resp' = NoResponse
    /\ UNCHANGED <<users, posts, nextPostId, now, session, req, lock, tables,
                   script>>

\* DROP TABLE IF EXISTS of a table that is not there does nothing: it
\* starts no write transaction and does not wait for the write lock.
\* Every other statement of the script writes.
NeedsLock(statement) == ~(statement[1] = "DROP" /\ statement[2] \notin tables)

\* init_db() hands schema.sql to executescript, which runs it statement by
\* statement, each statement committed on its own, so that the steps of
\* requests come in between.  One step is the next statement of the
\* script: script counts the statements the run has executed.  A statement
\* that writes runs once the write lock is free, and frees it as it
\* commits.  DROP TABLE removes the rows and the table's AUTOINCREMENT
\* counter; the session cookies, held by the browsers, stay as they are.
init_db ==
    /\ Cli \in openConns
    /\ script < Len(Schema)
    /\ LET statement == Schema[script + 1]
           table == statement[2]
       IN  /\ NeedsLock(statement) => lock = Free
           /\ script' = script + 1
           /\ tables' = IF statement[1] = "DROP" THEN tables \ {table}
                         ELSE tables \cup {table}
           /\ users' = IF table = "user" THEN <<>> ELSE users
           /\ posts' = IF table = "post" THEN <<>> ELSE posts
           /\ nextPostId' = IF table = "post" THEN 1 ELSE nextPostId
           /\ resp' = NoResponse
           /\ UNCHANGED <<now, session, req, openConns, lock>>

\* The next statement of the script writes and waited for the write lock
\* until the timeout: executescript raises OperationalError 'database is
\* locked' and the run ends where it is, the rest of the script not
\* executed, its connection closed by the teardown of the context.
init_db_locked ==
    /\ Cli \in openConns
    /\ script < Len(Schema)
    /\ NeedsLock(Schema[script + 1])
    /\ lock # Free
    /\ script' = 0
    /\ openConns' = openConns \ {Cli}
    /\ resp' = NoResponse
    /\ UNCHANGED <<users, posts, nextPostId, now, session, req, lock, tables>>

\* The script has run to its end: the command echoes 'Initialized the
\* database.', its context is popped and close_db closes the connection.
init_db_teardown ==
    /\ Cli \in openConns
    /\ script = Len(Schema)
    /\ script' = 0
    /\ openConns' = openConns \ {Cli}
    /\ resp' = NoResponse
    /\ UNCHANGED <<users, posts, nextPostId, now, session, req, lock, tables>>

\* An identity resolution that finds nobody.
LoadUserNobody(utbl, user_id) == None

\* load_logged_in_user: g.user for the user_id the session holds.
LoadUser(utbl, user_id) ==
    IF user_id = None THEN None ELSE SelectUserById(utbl, user_id)

\* The context is pushed; before_app_request runs load_logged_in_user.
load_logged_in_user(c) ==
    LET user_id == session[c]
        g == IF user_id = None THEN req[c] ELSE get_db(req[c])
    IN  /\ req[c].pc = "idle"
        /\ IF user_id # None /\ NoSuchTable({"user"})
           THEN Respond(c, g, "load_logged_in_user", "none", <<"", "">>, "500",
                        <<>>, <<>>)
           ELSE Goes(c, [g EXCEPT !.pc = "view",
                                  !.g_user = LoadUser(users, user_id),
                                  !.schema = IF user_id = None THEN g.schema
                                             ELSE tables])
        /\ UNCHANGED <<users, posts, nextPostId, now, session, lock>>

\* A validation that forgets the password.
RegisterErrorNoPassword(username, password) ==
    IF username = "" THEN <<"Username is required.">> ELSE <<>>

\* The error register() finds in the form, <<>> for none.
RegisterError(username, password) ==
    IF username = "" THEN <<"Username is required.">>
    ELSE IF password = "" THEN <<"Password is required.">>
    ELSE <<>>

\* register() on a POST whose INSERT does not wait: the response, the user
\* table it leaves, and txn: whether the connection is left inside a write
\* transaction (the INSERT raised IntegrityError after the implicit BEGIN,
\* and the except branch neither commits nor rolls back).
RegisterPost(utbl, username, password) ==
    LET error == RegisterError(username, password)
        ins == InsertUser(utbl, username, generate_password_hash(password))
    IN  IF error # <<>>
        THEN [status |-> "render", flash |-> error, users |-> utbl, txn |-> FALSE]
        ELSE IF ~ins.ok
        THEN [status |-> "render",
              flash |-> <<"User ", username, " is already registered.">>,
              users |-> utbl, txn |-> TRUE]
        ELSE [status |-> "redirect:auth.login", flash |-> <<>>, users |-> ins.tbl,
              txn |-> FALSE]

\* register() from the validation on, with the write lock available.
register_insert(c, g, username, password) ==
    LET r == RegisterPost(users, username, password)
    IN  /\ users' = r.users
        /\ lock' = IF r.txn THEN <<c, g.g_db>> ELSE lock
        /\ Respond(c, g, "register", "POST", <<username, password>>,
                   r.status, r.flash, <<>>)
        /\ UNCHANGED <<posts, nextPostId, now>>

register(c) ==
    /\ req[c].pc = "view"
    /\ \E method \in Methods :
        IF method = "POST"
        THEN \E username \in Usernames, password \in Passwords :
             LET g == get_db(req[c])
             IN  IF RegisterError(username, password) # <<>>
                 THEN register_insert(c, g, username, password)
                 ELSE IF NoSuchTable({"user"})
                 THEN Dropped(c, g, "register", <<username, password>>, "user")
                 ELSE IF Busy(c, g)
                 THEN Blocked(c, g, "register", <<username, password>>)
                 ELSE register_insert(c, g, username, password)
        ELSE /\ Respond(c, req[c], "register", method, <<"", "">>, "render",
                        <<>>, <<>>)
             /\ UNCHANGED <<users, posts, nextPostId, now, lock>>
    /\ UNCHANGED session

\* A login() that accepts any password of an existing user.
LoginErrorNoPassword(utbl, username, password) ==
    IF SelectUserByName(utbl, username) = None
    THEN <<"Incorrect username.">> ELSE <<>>

\* The error login() finds, <<>> for none.
LoginError(utbl, username, password) ==
    LET user == SelectUserByName(utbl, username)
    IN  IF user = None THEN <<"Incorrect username.">>
        ELSE IF ~check_password_hash(utbl[user].password, password)
             THEN <<"Incorrect password.">>
        ELSE <<>>

login(c) ==
    /\ req[c].pc = "view"
    /\ \E method \in Methods :
        IF method = "POST"
        THEN \E username \in Usernames, password \in Guesses :
             LET g == get_db(req[c])
                 error == LoginError(users, username, password)
             IN  IF NoSuchTable({"user"})
                 THEN /\ session' = session
                      /\ Respond(c, g, "login", method, <<username, password>>,
                                 "500", <<>>, <<>>)
                 ELSE IF error = <<>>
                 THEN /\ session' = [session EXCEPT ![c] =
                             users[SelectUserByName(users, username)].id]
                      /\ Respond(c, g, "login", method, <<username, password>>,
                                 "redirect:index", <<>>, <<>>)
                 ELSE /\ session' = session
                      /\ Respond(c, g, "login", method, <<username, password>>,
                                 "render", error, <<>>)
        ELSE /\ Respond(c, req[c], "login", method, <<"", "">>, "render",
                        <<>>, <<>>)
             /\ UNCHANGED session
    /\ UNCHANGED <<users, posts, nextPostId, now, lock>>

logout(c) ==
    /\ req[c].pc = "view"
    /\ session' = [session EXCEPT ![c] = None]
    /\ Respond(c, req[c], "logout", "GET", <<"", "">>, "redirect:index",
               <<>>, <<>>)
    /\ UNCHANGED <<users, posts, nextPostId, now, lock>>

index(c) ==
    /\ req[c].pc = "view"
    /\ IF NoSuchTable({"post", "user"})
       THEN Respond(c, get_db(req[c]), "index", "GET", <<"", "">>, "500", <<>>,
                    <<>>)
       ELSE Respond(c, get_db(req[c]), "index", "GET", <<"", "">>, "render",
                    <<>>, IndexQuery(posts, users))
    /\ UNCHANGED <<users, posts, nextPostId, now, session, lock>>

\* The error create() and update() find in the form, <<>> for none.
TitleError(title) == IF title = "" THEN <<"Title is required.">> ELSE <<>>

\* create() from get_db() on, with the write lock available: INSERT (the
\* column default reads the clock, which has not gone back), commit,
\* redirect.
create_insert(c, g, title, body) ==
    /\ nextPostId <= MaxPosts
    /\ \E created \in now..MaxClock :
          /\ posts' = InsertPost(posts, nextPostId, title, body, g.g_user,
                                 created)
          /\ now' = created
    /\ nextPostId' = nextPostId + 1
    /\ Respond(c, g, "create", "POST", <<title, body>>,
               "redirect:blog.index", <<>>, <<>>)
    /\ UNCHANGED <<users, lock>>

create(c) ==
    /\ req[c].pc = "view"
    /\ IF login_required(req[c].g_user)
       THEN /\ Respond(c, req[c], "create", "none", <<"", "">>,
                       "redirect:auth.login", <<>>, <<>>)
            /\ UNCHANGED <<users, posts, nextPostId, now, lock>>
       ELSE \E method \in Methods :
            IF method = "POST"
            THEN \E title \in Titles, body \in Bodies :
                 IF TitleError(title) # <<>>
                 THEN /\ Respond(c, req[c], "create", method, <<title, body>>,
                                 "render", TitleError(title), <<>>)
                      /\ UNCHANGED <<users, posts, nextPostId, now, lock>>
                 ELSE LET g == get_db(req[c])
                      IN  IF NoSuchTable({"post"})
                          THEN Dropped(c, g, "create", <<title, body>>, "post")
                          ELSE IF Busy(c, g)
                          THEN Blocked(c, g, "create", <<title, body>>)
                          ELSE create_insert(c, g, title, body)
            ELSE /\ Respond(c, req[c], "create", method, <<"", "">>, "render",
                            <<>>, <<>>)
                 /\ UNCHANGED <<users, posts, nextPostId, now, lock>>
    /\ UNCHANGED session

\* A get_post that returns although no row was found.
GetPostNoNotFound(ptbl, utbl, id, g_user) ==
    LET post == SelectPostById(ptbl, utbl, id)
    IN  IF post = None THEN "ok"
        ELSE IF ptbl[post].author_id # g_user THEN "403"
        ELSE "ok"

\* A get_post that compares the author before it looks whether a row was
\* found: subscripting the missing row raises, a 500.
GetPostAuthorFirst(ptbl, utbl, id, g_user) ==
    LET post == SelectPostById(ptbl, utbl, id)
    IN  IF post = None THEN "500"
        ELSE IF ptbl[post].author_id # g_user THEN "403"
        ELSE "ok"

\* get_post(id, check_author=True): the status it aborts with, "ok" when it
\* returns the post.
get_post(ptbl, utbl, id, g_user) ==
    LET post == SelectPostById(ptbl, utbl, id)
    IN  IF post = None THEN "404"
        ELSE IF ptbl[post].author_id # g_user THEN "403"
        ELSE "ok"

\* update(id) and delete(id) up to the return of get_post(id).
fetch(c, op) ==
    /\ req[c].pc = "view"
    /\ IF login_required(req[c].g_user)
       THEN Respond(c, req[c], op, "none", <<"", "">>, "redirect:auth.login",
                    <<>>, <<>>)
       ELSE \E id \in PostIds :
            LET g == [get_db(req[c]) EXCEPT !.id = id, !.op = op]
                found == IF NoSuchTable({"post", "user"}) THEN "500"
                         ELSE get_post(posts, users, id, req[c].g_user)
            IN  IF found = "ok"
                THEN Goes(c, [g EXCEPT !.pc = "write", !.schema = tables])
                ELSE Respond(c, g, op, "none", <<"", "">>, found, <<>>, <<>>)
    /\ UNCHANGED <<users, posts, nextPostId, now, session, lock>>

\* update(id) from get_db() on, with the write lock available: UPDATE,
\* commit, redirect.
update_write(c, g, title, body) ==
    /\ posts' = UpdatePost(posts, g.id, title, body)
    /\ Respond(c, g, "update", "POST", <<title, body>>,
               "redirect:blog.index", <<>>, <<>>)
    /\ UNCHANGED <<users, nextPostId, now, lock>>

\* update(id) after get_post(id) returned.  On a POST it reads
\* request.form['title'] and request.form['body'] first: a form without one
\* of them is answered 400 before the title is looked at.
update(c) ==
    /\ req[c].pc = "write"
    /\ req[c].op = "update"
    /\ \E method \in Methods :
        IF method = "POST"
        THEN \E title \in Titles \cup {Absent}, body \in Bodies \cup {Absent} :
             IF Absent \in {title, body}
             THEN /\ Respond(c, req[c], "update", method, <<title, body>>,
                             "400", <<>>, <<>>)
                  /\ UNCHANGED <<users, posts, nextPostId, now, lock>>
             ELSE IF TitleError(title) # <<>>
             THEN /\ Respond(c, req[c], "update", method, <<title, body>>,
                             "render", TitleError(title), <<>>)
                  /\ UNCHANGED <<users, posts, nextPostId, now, lock>>
             ELSE LET g == get_db(req[c])
                  IN  IF NoSuchTable({"post"})
                      THEN Dropped(c, g, "update", <<title, body>>, "post")
                      ELSE IF Busy(c, g)
                      THEN Blocked(c, g, "update", <<title, body>>)
                      ELSE update_write(c, g, title, body)
        ELSE /\ Respond(c, req[c], "update", method, <<"", "">>, "render",
                        <<>>, <<>>)
             /\ UNCHANGED <<users, posts, nextPostId, now, lock>>
    /\ UNCHANGED session

\* delete(id) from get_db() on, with the write lock available: DELETE,
\* commit, redirect.
delete_write(c, g) ==
    /\ posts' = DeletePost(posts, g.id)
    /\ Respond(c, g, "delete", "POST", <<"", "">>, "redirect:blog.index",
               <<>>, <<>>)
    /\ UNCHANGED <<users, nextPostId, now, lock>>

\* delete(id) after get_post(id) returned.
delete(c) ==
    LET g == get_db(req[c])
    IN  /\ req[c].pc = "write"
        /\ req[c].op = "delete"
        /\ IF NoSuchTable({"post"})
           THEN Dropped(c, g, "delete", <<"", "">>, "post")
           ELSE IF Busy(c, g)
           THEN Blocked(c, g, "delete", <<"", "">>)
           ELSE delete_write(c, g)
        /\ UNCHANGED session

\* A write statement that waited gets the lock (the transaction that held
\* it has ended) and the view goes on from there; when its table is dropped
\* by now, the statement, which holds the lock, raises 'no such table' and
\* the connection keeps the lock until close_db closes it.
execute(c) ==
    LET g == req[c]
        table == IF g.op = "register" THEN "user" ELSE "post"
    IN  /\ g.pc = "wait"
        /\ ~Busy(c, g)
        /\ IF NoSuchTable({table})
           THEN /\ Respond(c, g, g.op, "POST", g.form, "500", <<>>, <<>>)
                /\ lock' = <<c, g.g_db>>
                /\ UNCHANGED <<users, posts, nextPostId, now>>
           ELSE CASE g.op = "register" ->
                       register_insert(c, g, g.form[1], g.form[2])
                  [] g.op = "create" -> create_insert(c, g, g.form[1], g.form[2])
                  [] g.op = "update" -> update_write(c, g, g.form[1], g.form[2])
                  [] g.op = "delete" -> delete_write(c, g)
        /\ UNCHANGED session

\* A write statement that waited runs out of sqlite3.connect's timeout
\* while the lock is still held: OperationalError 'database is locked'.
busy_timeout(c) ==
    /\ req[c].pc = "wait"
    /\ Busy(c, req[c])
    /\ Respond(c, req[c], req[c].op, "POST", req[c].form, "500", <<>>, <<>>)
    /\ UNCHANGED <<users, posts, nextPostId, now, session, lock>>

\* The response is sent and the context popped: teardown runs close_db.
\* Closing a connection rolls back the transaction it is in.
teardown(c) ==
    /\ req[c].pc = "done"
    /\ openConns' = close_db(c, req[c])
    /\ lock' = IF lock = <<c, req[c].g_db>> THEN Free ELSE lock
    /\ req' = [req EXCEPT ![c] = Idle]
    /\ resp' = NoResponse
    /\ UNCHANGED <<users, posts, nextPostId, now, session, tables, script>>

\* The requests of the browsers, running concurrently step by step.
NextRequests ==
    \E c \in Clients :
        \/ load_logged_in_user(c)
        \/ register(c)
        \/ login(c)
        \/ logout(c)
        \/ index(c)
        \/ create(c)
        \/ fetch(c, "update")
        \/ fetch(c, "delete")
        \/ update(c)
        \/ delete(c)
        \/ execute(c)
        \/ busy_timeout(c)
        \/ teardown(c)

\* The application as it can be run: requests, and 'flask init-db' at any
\* time, one run of it at a time.
Next ==
    \/ NextRequests
    \/ init_db_command
    \/ init_db
    \/ init_db_locked
    \/ init_db_teardown

Spec == Init /\ [][Next]_vars

\* The behaviours that consist of requests only.
SpecRequests == Init /\ [][NextRequests]_vars

\* Post tables the program can hold: ids in insertion order, created
\* non-decreasing in insertion order, every author a registered user.
TwoUsers ==
    <<[id |-> 1, username |-> "a", password |-> generate_password_hash("p")],
      [id |-> 2, username |-> "b", password |-> generate_password_hash("q")]>>

PostTables ==
    UNION {{[i \in 1..n |-> [id |-> i, title |-> "t", body |-> "",
                             created |-> k[i][1], author_id |-> k[i][2]]] :
              k \in {f \in [1..n -> (1..MaxStamp) \X (1..2)] :
                        \A i \in 1..(n - 1) : f[i][1] <= f[i + 1][1]}}
           : n \in 0..MaxListed}

InitIndex ==
    /\ users = TwoUsers
    /\ posts \in PostTables
    /\ nextPostId = Len(posts) + 1
    /\ now = IF posts = <<>> THEN 1 ELSE posts[Len(posts)].created
    /\ session = [c \in Clients |-> None]
    /\ req = [c \in Clients |-> Idle]
    /\ resp = NoResponse
    /\ openConns = {}
    /\ lock = Free
    /\ tables = AllTables
    /\ script = 0

NextIndex ==
    \E c \in Clients :
        \/ load_logged_in_user(c)
        \/ index(c)
        \/ teardown(c)

SpecIndex == InitIndex /\ [][NextIndex]_vars
\* ------------------------------------------------------------- properties
\* The views login_required wraps.
Guarded == {"create", "update", "delete"}

\* Client c takes the step (its request moves on).
Steps(c) == req'[c] # req[c]

\* Client c takes the step and its view answers in it.
Answers(c) == Steps(c) /\ resp'.client = c

\* The rows of tbl with the given id.
RowsWithId(tbl, id) == {tbl[i] : i \in {j \in 1..Len(tbl) : tbl[j].id = id}}

\* tbl2 is tbl with rows added after the existing ones, or tbl itself.
Extends(tbl2, tbl) ==
    Len(tbl2) >= Len(tbl) /\ SubSeq(tbl2, 1, Len(tbl)) = tbl

\* C1: a request whose resolved identity is anonymous never gets into create,
\* update or delete: it is answered with a redirect to the login page and
\* the post table stays as it was; whenever a request's step changes the
\* post table, the identity resolved for that request is a user.
C1_AnonymousNeverMutates ==
    [][\A c \in Clients :
        /\ (/\ req[c].pc = "view"
            /\ req[c].g_user = None
            /\ Steps(c))
           => /\ req'[c].op \notin Guarded
              /\ (resp'.client = c /\ resp'.op \in Guarded)
                    => /\ resp'.status = "redirect:auth.login"
                       /\ posts' = posts
        /\ (Steps(c) /\ posts' # posts) => req[c].g_user # None]_vars

\* An anonymous delete was redirected to the login page while a post exists.
C1_Witness ==
    \E c \in Clients :
        /\ resp.client = c
        /\ resp.op = "delete"
        /\ resp.status = "redirect:auth.login"
        /\ req[c].g_user = None
        /\ posts # <<>>

\* The step of client c is the get_post half of an update or delete request
\* for the given id.
Fetches(c, id) ==
    /\ req[c].pc = "view"
    /\ Steps(c)
    /\ \/ req'[c].pc = "write" /\ req'[c].id = id
       \/ resp'.client = c /\ resp'.op \in {"update", "delete"} /\ resp'.id = id

\* C2: an update or delete of an existing post by a logged-in user who is
\* not its author is answered 403 and changes no post, while the author's
\* request succeeds: it gets past get_post, and it is answered with the
\* redirect to the listing, the delete having removed the post and the
\* update whose form holds a title and a body having rewritten it; a post
\* changes or disappears only in a step of a request whose identity is the
\* post's author.
C2_OnlyAuthorMutates ==
    [][/\ \A c \in Clients : \A i \in 1..Len(posts) :
            (Fetches(c, posts[i].id) /\ req[c].g_user # None)
            => IF posts[i].author_id # req[c].g_user
               THEN /\ resp'.client = c
                    /\ resp'.status = "403"
                    /\ posts' = posts
               ELSE req'[c].pc = "write"
       /\ \A c \in Clients :
            (req[c].pc \in {"write", "wait"} /\ req[c].op \in {"update", "delete"}
               /\ Answers(c))
            => /\ req[c].op = "delete" =>
                    /\ resp'.status = "redirect:blog.index"
                    /\ RowsWithId(posts', req[c].id) = {}
               /\ (req[c].op = "update" /\ resp'.method = "POST"
                     /\ resp'.form \in Titles \X Bodies
                     /\ resp'.form[1] # "") =>
                    /\ resp'.status = "redirect:blog.index"
                    /\ \A p \in RowsWithId(posts', req[c].id) :
                          p.title = resp'.form[1] /\ p.body = resp'.form[2]
       /\ \A i \in 1..Len(posts) :
            (\A j \in 1..Len(posts') : posts'[j] # posts[i])
            => \E c \in Clients :
                   /\ Steps(c)
                   /\ req[c].pc \in {"write", "wait"}
                   /\ req[c].op \in {"update", "delete"}
                   /\ req[c].g_user = posts[i].author_id]_vars

\* C3: a register POST with a username and a password succeeds when no row
\* has the username, adding exactly one row for it, and otherwise is answered
\* with "User <name> is already registered." and adds no row; under every
\* interleaving of the clients' requests the user table never holds two rows
\* with one username.
C3_RegisterOncePerUsername ==
    /\ [](\A i, j \in 1..Len(users) :
             users[i].username = users[j].username => i = j)
    /\ [][\A c \in Clients :
            (/\ Answers(c)
             /\ resp'.op = "register"
             /\ resp'.method = "POST"
             /\ resp'.form[1] # ""
             /\ resp'.form[2] # "")
            => IF \E i \in 1..Len(users) : users[i].username = resp'.form[1]
               THEN /\ resp'.status = "render"
                    /\ resp'.flash =
                         <<"User ", resp'.form[1], " is already registered.">>
                    /\ users' = users
               ELSE /\ resp'.status = "redirect:auth.login"
                    /\ Len(users') = Len(users) + 1
                    /\ SubSeq(users', 1, Len(users)) = users
                    /\ users'[Len(users')].username = resp'.form[1]]_vars

\* C7: a create POST by a logged-in user with an empty title, whatever the
\* body, is answered with the form and "Title is required." and leaves the
\* post table and its id counter alone; so is an update POST by the post's
\* author with an empty title and a body; a create POST with a title
\* succeeds, with an empty body too, appending one post with that title and
\* body whose author is the request's user.
C7_TitleRequired ==
    [][\A c \in Clients :
        /\ (/\ Answers(c) /\ req[c].g_user # None
            /\ resp'.op = "create" /\ resp'.method = "POST")
           => IF resp'.form[1] = ""
              THEN /\ resp'.status = "render"
                   /\ resp'.flash = <<"Title is required.">>
                   /\ posts' = posts
                   /\ nextPostId' = nextPostId
              ELSE /\ resp'.status = "redirect:blog.index"
                   /\ Len(posts') = Len(posts) + 1
                   /\ SubSeq(posts', 1, Len(posts)) = posts
                   /\ posts'[Len(posts')].title = resp'.form[1]
                   /\ posts'[Len(posts')].body = resp'.form[2]
                   /\ posts'[Len(posts')].author_id = req[c].g_user
        /\ (/\ Answers(c) /\ resp'.op = "update"
            /\ resp'.method = "POST" /\ resp'.form[1] = ""
            /\ resp'.form[2] \in Bodies)
           => /\ resp'.status = "render"
              /\ resp'.flash = <<"Title is required.">>
              /\ posts' = posts]_vars

\* C4: a session holds one user id or none; a successful login puts there
\* the id of the user logged in as, whatever it held, a logout clears it, and
\* nothing else changes it; every request resolves to the user whose id its
\* session holds, whose row is there and stays the row it was at the login,
\* and to nobody when the session holds none.
C4_SessionIdentity ==
    [][/\ \A c \in Clients :
          /\ (req[c].pc = "idle" /\ Steps(c))
             => /\ req'[c].pc = "view"
                /\ req'[c].g_user = session[c]
                /\ session[c] # None
                   => \E i \in 1..Len(users) : users[i].id = session[c]
          /\ (/\ Answers(c)
              /\ resp'.op = "login"
              /\ resp'.status = "redirect:index")
             => \E i \in 1..Len(users) :
                   /\ users[i].username = resp'.form[1]
                   /\ session'[c] = users[i].id
          /\ (Answers(c) /\ resp'.op = "logout") => session'[c] = None
          /\ session'[c] # session[c]
             => /\ Answers(c)
                /\ resp'.op \in {"login", "logout"}
                /\ resp'.status = "redirect:index"
       /\ Extends(users', users)]_vars

\* A request of a session logged in as the second registered user resolved
\* to that user.
C4_Witness ==
    \E c \in Clients :
        /\ req[c].pc = "view"
        /\ session[c] = 2
        /\ req[c].g_user = 2
        /\ Len(users) = 2

\* C5: a login POST whose username has no row in the user table, or whose
\* password is not the one the row was registered with, is answered with the
\* login form and "Incorrect username." or "Incorrect password."; after any
\* login request that is not answered with the redirect every session holds
\* what it held before.
C5_FailedLoginKeepsSession ==
    [][\A c \in Clients :
        /\ (/\ Answers(c)
            /\ resp'.op = "login"
            /\ resp'.method = "POST"
            /\ ~\E i \in 1..Len(users) :
                  /\ users[i].username = resp'.form[1]
                  /\ users[i].password = <<"pbkdf2", resp'.form[2]>>)
           => /\ resp'.status = "render"
              /\ resp'.flash =
                   IF \E i \in 1..Len(users) : users[i].username = resp'.form[1]
                   THEN <<"Incorrect password.">> ELSE <<"Incorrect username.">>
              /\ session' = session
        /\ (/\ Answers(c)
            /\ resp'.op = "login"
            /\ resp'.status # "redirect:index")
           => session' = session]_vars

\* A logged-in client failed a login with a wrong password for an existing
\* user.
C5_Witness ==
    \E c \in Clients :
        /\ resp.client = c
        /\ resp.op = "login"
        /\ resp.flash = <<"Incorrect password.">>
        /\ resp.form[2] # ""
        /\ session[c] # None

\* C6: a register POST with an empty username or an empty password is
\* answered at once with the form and "Username is required." or "Password
\* is required.", whoever holds the write lock, and the user table is after
\* it what it was before.
C6_EmptyRegisterRejected ==
    [][\A c \in Clients :
        /\ (/\ Answers(c)
            /\ resp'.op = "register"
            /\ resp'.method = "POST"
            /\ (resp'.form[1] = "" \/ resp'.form[2] = ""))
           => /\ req[c].pc = "view"
              /\ resp'.status = "render"
              /\ resp'.flash =
                   IF resp'.form[1] = "" THEN <<"Username is required.">>
                   ELSE <<"Password is required.">>
              /\ users' = users
        /\ (Steps(c) /\ req'[c].pc = "wait" /\ req'[c].op = "register")
           => req'[c].form[1] # "" /\ req'[c].form[2] # ""]_vars

\* A register with a fresh username and an empty password was rejected
\* while the table already held a row and another connection held the write
\* lock.
C6_Witness ==
    \E c \in Clients :
        /\ resp.client = c
        /\ resp.op = "register"
        /\ resp.form[1] # ""
        /\ resp.form[2] = ""
        /\ resp.flash = <<"Password is required.">>
        /\ Len(users) = 1
        /\ users[1].username # resp.form[1]
        /\ lock # Free

\* The created values of a table, in row order.
CreatedOf(tbl) == [i \in 1..Len(tbl) |-> tbl[i].created]

\* C8: the listing holds every post of the table exactly once, with the
\* post's columns and its author's username, in descending order of created,
\* posts of equal created in insertion (id) order; for posts inserted with
\* created 1, 2, 2, 3 the order is the fourth, the second, the third, the
\* first.
C8_ListingOrder ==
    resp.op = "index"
    => LET r == resp.rows
       IN  /\ Len(r) = Len(posts)
           /\ \A i \in 1..Len(posts) :
                 /\ Cardinality({k \in 1..Len(r) : r[k].id = posts[i].id}) = 1
                 /\ \E k \in 1..Len(r) :
                       /\ r[k].id = posts[i].id
                       /\ r[k].title = posts[i].title
                       /\ r[k].body = posts[i].body
                       /\ r[k].created = posts[i].created
                       /\ r[k].author_id = posts[i].author_id
                       /\ \E u \in 1..Len(users) :
                             /\ users[u].id = posts[i].author_id
                             /\ users[u].username = r[k].username
           /\ \A k, l \in 1..Len(r) :
                 k < l => \/ r[k].created > r[l].created
                          \/ r[k].created = r[l].created /\ r[k].id < r[l].id
           /\ CreatedOf(posts) = <<1, 2, 2, 3>>
                 => [k \in 1..Len(r) |-> r[k].id] = <<4, 2, 3, 1>>

\* The listing of the posts created at 1, 2, 2, 3 was returned.
C8_Witness ==
    /\ resp.op = "index"
    /\ CreatedOf(posts) = <<1, 2, 2, 3>>
    /\ CreatedOf(resp.rows) = <<3, 2, 2, 1>>

\* C9: an update or delete by a logged-in user of an id no post of the post
\* table has is answered 404 and leaves the post table alone; a request gets
\* to the write of update or delete only from get_post, in a step at which a
\* post with its id exists; and only a request that got there changes the
\* table for an update or delete.
C9_MissingPostNotFound ==
    [][\A c \in Clients :
        /\ \A id \in PostIds : Fetches(c, id) => posts' = posts
        /\ \A id \in PostIds :
              (/\ Fetches(c, id)
               /\ req[c].g_user # None
               /\ RowsWithId(posts, id) = {})
              => /\ resp'.client = c
                 /\ resp'.status = "404"
                 /\ posts' = posts
        /\ (req'[c].pc = "write" /\ Steps(c))
           => /\ req[c].pc = "view"
              /\ RowsWithId(posts, req'[c].id) # {}
        /\ (posts' # posts /\ Answers(c) /\ resp'.op \in {"update", "delete"})
           => /\ req[c].pc \in {"write", "wait"}
              /\ req[c].op = resp'.op]_vars

\* A logged-in user was answered 404 for the id of a post that was deleted.
C9_Witness ==
    \E c \in Clients :
        /\ resp.client = c
        /\ resp.op \in {"update", "delete"}
        /\ resp.status = "404"
        /\ req[c].g_user # None
        /\ resp.id < nextPostId
        /\ posts = <<>>

\* The connections of client c's contexts that are open.
OpenOf(c) == {x \in openConns : x[1] = c}

\* C10: a context connects at most once, g.db once set stays the same
\* connection until the context ends, and the only open connection of a
\* client is the g.db of its context in progress: none is left open once the
\* context has ended, whatever the response; the teardown of a context that
\* never called get_db closes nothing.
C10_OneConnectionPerContext ==
    /\ [](\A c \in Clients :
             /\ req[c].nconn <= 1
             /\ req[c].pc = "idle" => req[c].g_db = None
             /\ OpenOf(c) = IF req[c].g_db = None THEN {}
                            ELSE {<<c, req[c].g_db>>})
    /\ [][\A c \in Clients :
            /\ (req[c].g_db # None /\ req'[c].pc # "idle")
               => req'[c].g_db = req[c].g_db
            /\ (req[c].pc = "done" /\ Steps(c))
               => /\ req'[c].pc = "idle"
                  /\ openConns' = openConns \ {<<c, req[c].g_db>>}
                  /\ req[c].g_db = None => openConns' = openConns]_vars

\* The context of a logged-in client's request, which used the database and
\* was answered, has ended.
C10_Witness ==
    \E c \in Clients :
        /\ req[c].pc = "idle"
        /\ session[c] # None
        /\ OpenOf(c) = {}
        /\ posts # <<>>

\* The select of get_post finds the post with the id: a row of the post
\* table together with the user row of its author.
Found(id) ==
    \E p \in RowsWithId(posts, id) :
        \E u \in 1..Len(users) : users[u].id = p.author_id

\* The order of the checks of an update or delete request of client c, as a
\* condition on its steps: the identity is resolved from the session before
\* the view and stays; the get_post half writes nothing and answers by the
\* first check that fails - anonymous: redirect to the login page (whether
\* or not the post exists), no post found: 404, a post of another author:
\* 403 - and only when none fails goes on to the write; 404 and 403 are
\* never answered to an anonymous identity; the post table changes only in
\* the write half, which answers with the redirect to the listing.
ChecksInOrder(c) ==
    /\ (req[c].pc = "idle" /\ Steps(c))
       => /\ req'[c].pc = "view"
          /\ req'[c].g_user \in {session[c], None}
          /\ session[c] = None => req'[c].g_user = None
          /\ posts' = posts
    /\ (req[c].pc \in {"view", "write", "wait"} /\ Steps(c))
       => req'[c].g_user = req[c].g_user
    /\ \A id \in PostIds :
          Fetches(c, id)
          => /\ posts' = posts
             /\ IF req[c].g_user = None
                THEN resp'.client = c /\ resp'.status = "redirect:auth.login"
                ELSE IF ~Found(id)
                THEN resp'.client = c /\ resp'.status = "404"
                ELSE IF \E p \in RowsWithId(posts, id) :
                           p.author_id # req[c].g_user
                THEN resp'.client = c /\ resp'.status = "403"
                ELSE req'[c].pc = "write"
    /\ (req[c].pc = "view" /\ Answers(c) /\ resp'.op \in {"update", "delete"})
       => /\ resp'.status \in {"redirect:auth.login", "404", "403"}
          /\ resp'.status \in {"404", "403"} => req[c].g_user # None
    /\ (Steps(c) /\ req'[c].pc = "write") => req[c].g_user # None
    /\ (Answers(c) /\ resp'.op \in {"update", "delete"} /\ posts' # posts)
       => /\ req[c].pc \in {"write", "wait"}
          /\ resp'.status = "redirect:blog.index"
    /\ (Answers(c) /\ resp'.op \in {"update", "delete"}
          /\ resp'.status = "redirect:blog.index")
       => req[c].pc \in {"write", "wait"}

\* The four answers the state machine of a post-mutation request names.
FourAnswers == {"redirect:auth.login", "404", "403", "redirect:blog.index"}

\* C11 as stated: the checks run in order and every update or delete request
\* ends in the redirect to the login page, 404, 403 or the redirect to the
\* listing after the write.
C11_Original ==
    [][\A c \in Clients :
        /\ ChecksInOrder(c)
        /\ (Answers(c) /\ resp'.op \in {"update", "delete"})
           => resp'.status \in FourAnswers]_vars

\* C11 amended: the checks run in order; an update or delete request ends in
\* one of the four answers or, once its checks have passed and with nothing
\* written: an update in the update form, on a GET or on a POST with an
\* empty title, which flashes "Title is required."; an update POST whose
\* form lacks the title or the body in a 400; an update or delete in a 500,
\* when its write statement found the write lock held by another connection
\* until the timeout.
C11_ChecksInOrder ==
    [][\A c \in Clients :
        /\ ChecksInOrder(c)
        /\ (Answers(c) /\ resp'.op \in {"update", "delete"})
           => \/ resp'.status \in FourAnswers
              \/ /\ resp'.op = "update"
                 /\ req[c].pc = "write"
                 /\ resp'.status = "render"
                 /\ posts' = posts
                 /\ \/ resp'.method = "GET" /\ resp'.flash = <<>>
                    \/ /\ resp'.method = "POST"
                       /\ resp'.form[1] = ""
                       /\ resp'.form[2] \in Bodies
                       /\ resp'.flash = <<"Title is required.">>
              \/ /\ resp'.op = "update"
                 /\ req[c].pc = "write"
                 /\ resp'.status = "400"
                 /\ posts' = posts
                 /\ resp'.method = "POST"
                 /\ Absent \in {resp'.form[1], resp'.form[2]}
              \/ /\ req[c].pc \in {"write", "wait"}
                 /\ resp'.status = "500"
                 /\ posts' = posts
                 /\ lock # Free
                 /\ lock[1] # c]_vars

\* The author's GET of the update page of an existing post was answered
\* with the form.
C11_Witness ==
    \E c \in Clients :
        /\ resp.client = c
        /\ resp.op = "update"
        /\ resp.method = "GET"
        /\ resp.status = "render"
        /\ \E p \in RowsWithId(posts, resp.id) : p.author_id = req[c].g_user

\* C12: every post's author_id is the id of a row of the user table, in
\* every state the requests reach; a post comes into the table only by a
\* create, with the id of the identity resolved for that request as its
\* author_id; a post that stays in the table keeps its author_id; and the
\* rows of the user table are never changed or removed, only added after the
\* existing ones.
C12_NoOrphanPosts ==
    /\ [](\A i \in 1..Len(posts) :
             \E u \in 1..Len(users) : users[u].id = posts[i].author_id)
    /\ [][/\ Extends(users', users)
          /\ \A j \in 1..Len(posts') :
                IF RowsWithId(posts, posts'[j].id) = {}
                THEN \E c \in Clients :
                        /\ Answers(c)
                        /\ resp'.op = "create"
                        /\ req[c].g_user # None
                        /\ posts'[j].author_id = req[c].g_user
                ELSE \A p \in RowsWithId(posts, posts'[j].id) :
                        posts'[j].author_id = p.author_id]_vars

\* The second registered user's update of the post that user created went
\* through.
C12_Witness ==
    \E c \in Clients :
        /\ resp.client = c
        /\ resp.op = "update"
        /\ resp.status = "redirect:blog.index"
        /\ resp.form = <<"t", "x">>
        /\ req[c].g_user = 2
        /\ Len(users) = 2
        /\ \E p \in RowsWithId(posts, resp.id) :
              p.author_id = 2 /\ p.body = "x"
====
